---- MODULE Spec2Model ----
(***************************************************************************)
(* CMOS inverter sizing: the analytical evaluator (perf_cmos_inverter.py), *)
(* the MIDACO problem definition (optimize_inverter.py) and the            *)
(* simulation-backed evaluator with its grid search                        *)
(* (src/optimize_inverter_ltspice.py).                                     *)
(*                                                                         *)
(* Python floats are modelled as decimal floating-point numbers            *)
(* [m |-> mantissa, e |-> exponent] of value m * 10^e, the mantissa kept   *)
(* to eight significant digits and every operation truncating toward zero. *)
(***************************************************************************)
EXTENDS Integers, Sequences, FiniteSets, TLC

\* ------------------------------------------------------------------------
\* Floating-point arithmetic (Python float, eight decimal digits)
\* ------------------------------------------------------------------------

Abs(n) == IF n < 0 THEN -n ELSE n

Sgn(n) == IF n < 0 THEN -1 ELSE IF n = 0 THEN 0 ELSE 1

Pow10(k) == CASE k = 0 -> 1 [] k = 1 -> 10 [] k = 2 -> 100 [] k = 3 -> 1000
              [] k = 4 -> 10000 [] k = 5 -> 100000 [] k = 6 -> 1000000
              [] k = 7 -> 10000000 [] k = 8 -> 100000000
              [] OTHER -> 1000000000

\* Integer division truncating toward zero.
TruncDiv(n, d) == Sgn(n) * (Abs(n) \div d)

RECURSIVE FNorm(_, _)
\* The float of value m * 10^e, mantissa normalised to eight digits. A
\* magnitude below half the smallest positive double (4.94e-324 / 2)
\* underflows to zero.
FNorm(m, e) ==
    IF m = 0 THEN [m |-> 0, e |-> 0]
    ELSE IF Abs(m) >= 100000000 THEN FNorm(TruncDiv(m, 10), e + 1)
    ELSE IF Abs(m) < 10000000 THEN FNorm(m * 10, e - 1)
    ELSE IF e < -331 \/ (e = -331 /\ Abs(m) < 24703282) THEN [m |-> 0, e |-> 0]
    ELSE [m |-> m, e |-> e]

F(m, e) == FNorm(m, e)

FNeg(a) == [m |-> -a.m, e |-> a.e]

\* a * b: the product of the mantissas, computed by halves of four digits
\* and divided by 10^7 without overflow, then truncated to eight digits.
FMul(a, b) ==
    LET a1  == Abs(a.m) \div 10000
        a0  == Abs(a.m) % 10000
        b1  == Abs(b.m) \div 10000
        b0  == Abs(b.m) % 10000
        mid == a1 * b0 + a0 * b1
        low == a0 * b0
        p   == a1 * b1 * 10 + (mid * 10 + low \div 1000) \div 10000
    IN  FNorm(Sgn(a.m) * Sgn(b.m) * p, a.e + b.e + 7)

RECURSIVE LongDiv(_, _, _, _)
\* floor((q * d + r) * 10^k / d), one decimal digit per step.
LongDiv(q, r, d, k) ==
    IF k = 0 THEN q
    ELSE LongDiv(q * 10 + (r * 10) \div d, (r * 10) % d, d, k - 1)

\* a / b for b # 0 (the callers raise ZeroDivisionError themselves).
FDiv(a, b) ==
    LET n == Abs(a.m)
        d == Abs(b.m)
        q == LongDiv(n \div d, n % d, d, 8)
    IN  FNorm(Sgn(a.m) * Sgn(b.m) * q, a.e - b.e - 8)

\* a + b: the operand of smaller exponent is shifted right, then added.
FAdd(a, b) ==
    IF a.m = 0 THEN b
    ELSE IF b.m = 0 THEN a
    ELSE IF a.e >= b.e
         THEN FNorm(a.m + (IF a.e - b.e > 8 THEN 0
                           ELSE TruncDiv(b.m, Pow10(a.e - b.e))), a.e)
         ELSE FNorm(b.m + (IF b.e - a.e > 8 THEN 0
                           ELSE TruncDiv(a.m, Pow10(b.e - a.e))), b.e)

FSub(a, b) == FAdd(a, FNeg(b))

\* a < b
FLess(a, b) ==
    IF Sgn(a.m) # Sgn(b.m) THEN Sgn(a.m) < Sgn(b.m)
    ELSE IF a.m = 0 THEN FALSE
    ELSE IF a.m > 0
         THEN a.e < b.e \/ (a.e = b.e /\ a.m < b.m)
         ELSE a.e > b.e \/ (a.e = b.e /\ a.m < b.m)

FLeq(a, b) == ~FLess(b, a)

FZero == F(0, 0)

\* ------------------------------------------------------------------------
\* perf_cmos_inverter.py: process constants of AMS 0.35um
\* ------------------------------------------------------------------------

VDD == F(33, -1)

VTH_N == F(498, -3)

VTH_P == F(6915, -4)

U0_N == F(4758, -1)

U0_P == F(1482, -1)

TOX == F(7575, -12)

EPS_OX == FMul(F(39, -1), F(885, -14))

COX == FDiv(EPS_OX, TOX)

MU_N == FMul(U0_N, F(1, -4))

MU_P == FMul(U0_P, F(1, -4))

KPRIME_N == FMul(MU_N, COX)

KPRIME_P == FMul(MU_P, COX)

CL == F(10, -15)

F_CLK == F(100, 6)

ALPHA_DELAY == F(69, -2)

\* An exception propagating out of a call, in place of its result.
Exception(name) == [error |-> name]

Raised(r) == "error" \in DOMAIN r

ZeroDivisionError == Exception("ZeroDivisionError")

\* Resistance with a sentinel of 1e2 in place of 1e12.
ResistanceSmallSentinel(kprime, W_m, L_m, vod) ==
    IF FLess(FZero, W_m)
    THEN FDiv(F(1, 0), FMul(FMul(kprime, FDiv(W_m, L_m)), vod))
    ELSE F(1, 2)

\* Equivalent resistance of one transistor, with the 1e12 sentinel for a
\* width that is not positive (lines 72-73).
Resistance(kprime, W_m, L_m, vod) ==
    IF FLess(FZero, W_m)
    THEN FDiv(F(1, 0), FMul(FMul(kprime, FDiv(W_m, L_m)), vod))
    ELSE F(1, 12)

\* compute_performances with power_total left at the dynamic power and the
\* area taken from the difference of the widths.
PerformancesWithoutLeakage(Wn, Wp, L) ==
    LET Wn_m  == FMul(Wn, F(1, -6))
        Wp_m  == FMul(Wp, F(1, -6))
        L_m   == FMul(L, F(1, -6))
        R_n   == Resistance(KPRIME_N, Wn_m, L_m, FSub(VDD, VTH_N))
        R_p   == Resistance(KPRIME_P, Wp_m, L_m, FSub(VDD, VTH_P))
        tp_n  == FMul(FMul(ALPHA_DELAY, R_n), CL)
        tp_p  == FMul(FMul(ALPHA_DELAY, R_p), CL)
        P_dyn == FMul(FMul(CL, FMul(VDD, VDD)), F_CLK)
    IN  IF L_m.m = 0 /\ (FLess(FZero, Wn_m) \/ FLess(FZero, Wp_m))
        THEN ZeroDivisionError
        ELSE [delay       |-> FDiv(FAdd(tp_n, tp_p), F(2, 0)),
              power_dyn   |-> P_dyn,
              power_stat  |-> FMul(F(10, -9), VDD),
              power_total |-> P_dyn,
              area        |-> FMul(FMul(FSub(Wn, Wp), L), F(3, 0))]

\* compute_performances(Wn, Wp, L): the performance record, or the error
\* raised by W_m / L_m when a width is positive and L is zero.
compute_performances(Wn, Wp, L) ==
    LET Wn_m  == FMul(Wn, F(1, -6))
        Wp_m  == FMul(Wp, F(1, -6))
        L_m   == FMul(L, F(1, -6))
        VOD_N == FSub(VDD, VTH_N)
        VOD_P == FSub(VDD, VTH_P)
        R_n   == Resistance(KPRIME_N, Wn_m, L_m, VOD_N)
        R_p   == Resistance(KPRIME_P, Wp_m, L_m, VOD_P)
        tp_n  == FMul(FMul(ALPHA_DELAY, R_n), CL)
        tp_p  == FMul(FMul(ALPHA_DELAY, R_p), CL)
        tp    == FDiv(FAdd(tp_n, tp_p), F(2, 0))
        P_dyn == FMul(FMul(CL, FMul(VDD, VDD)), F_CLK)
        I_LEAK == F(10, -9)
        P_stat == FMul(I_LEAK, VDD)
        FACTOR_LAYOUT == F(3, 0)
        area_um2 == FMul(FMul(FAdd(Wn, Wp), L), FACTOR_LAYOUT)
    IN  IF L_m.m = 0 /\ (FLess(FZero, Wn_m) \/ FLess(FZero, Wp_m))
        THEN ZeroDivisionError
        ELSE [delay       |-> tp,
              power_dyn   |-> P_dyn,
              power_stat  |-> P_stat,
              power_total |-> FAdd(P_dyn, P_stat),
              area        |-> area_um2]

\* Ratio guarded by Wn > 0 instead of Wn > 0.01.
RatioGuardZero(Wn, Wp) ==
    IF FLess(FZero, Wn)
    THEN [value |-> FDiv(Wp, Wn), divided |-> TRUE]
    ELSE [value |-> F(1, 0), divided |-> FALSE]

\* Ratio forced to 2.0, a value inside the window, unless Wn > 0.01.
RatioForcedInsideWindow(Wn, Wp) ==
    IF FLess(F(1, -2), Wn)
    THEN [value |-> FDiv(Wp, Wn), divided |-> TRUE]
    ELSE [value |-> F(2, 0), divided |-> FALSE]

\* Line 122: the sizing ratio, forced to 1.0 unless Wn > 0.01; divided
\* records whether Wp / Wn was evaluated.
Ratio(Wn, Wp) ==
    IF FLess(F(1, -2), Wn)
    THEN [value |-> FDiv(Wp, Wn), divided |-> TRUE]
    ELSE [value |-> F(1, 0), divided |-> FALSE]

\* Residuals for the window 1.5 <= Wp/Wn <= 4 of the comment on line 121.
ResidualsStaleWindow(ratio) == <<FSub(ratio, F(15, -1)), FSub(F(4, 0), ratio)>>

\* The residuals with a third one appended, the ratio once more against
\* its lower limit.
ResidualsThree(ratio) ==
    <<FSub(ratio, F(12, -1)), FSub(F(45, -1), ratio), FSub(ratio, F(12, -1))>>

\* Lines 123-126: the constraint residuals, g >= 0 meaning satisfied.
Residuals(ratio) == <<FSub(ratio, F(12, -1)), FSub(F(45, -1), ratio)>>

\* compute_performances_for_optim(x): ([f], g), or the error raised by
\* compute_performances.
compute_performances_for_optim(xx) ==
    LET Wn == xx[1]
        Wp == xx[2]
        L  == xx[3]
        perfr   == compute_performances(Wn, Wp, L)
        f_delay == FMul(perfr.delay, F(1, 9))
        f_power == FMul(perfr.power_total, F(1, 6))
        f_area  == perfr.area
        w1 == F(1, 0)
        w2 == F(1, -2)
        w3 == F(1, -3)
        f  == FAdd(FAdd(FMul(w1, f_delay), FMul(w2, f_power)), FMul(w3, f_area))
        ratio == Ratio(Wn, Wp)
    IN  IF Raised(perfr)
        THEN perfr
        ELSE [f |-> <<f>>,
              g |-> Residuals(ratio.value),
              divided |-> ratio.divided]

\* ------------------------------------------------------------------------
\* optimize_inverter.py: the problem handed to MIDACO
\* ------------------------------------------------------------------------

problem_o == 1

problem_n == 3

problem_ni == 0

problem_m == 2

problem_me == 0

problem_xl == <<F(5, -1), F(5, -1), F(35, -2)>>

problem_xu == <<F(50, 0), F(150, 0), F(1, 0)>>

problem_x == <<F(2, 0), F(6, 0), F(35, -2)>>

\* ------------------------------------------------------------------------
\* src/optimize_inverter_ltspice.py: run_simulation_and_extract_delay
\* ------------------------------------------------------------------------

\* Python None: an absent measurement, an unset incumbent, a missing file.
None == [none |-> TRUE]

\* A value float() rejects with ValueError.
Bad == [bad |-> TRUE]

IsFloat(v) == DOMAIN v = {"m", "e"}

\* round(a * 10^d) as an integer, ties to even: the digits of f"{a:.<d>f}".
RoundFixed(a, d) ==
    LET k == a.e + d
        p == Pow10(-k)
        q == Abs(a.m) \div p
        r == Abs(a.m) % p
    IN  IF k >= 0 THEN a.m * Pow10(k)
        ELSE IF -k > 9 THEN 0
        ELSE Sgn(a.m) * (IF 2 * r > p \/ (2 * r = p /\ q % 2 = 1)
                         THEN q + 1 ELSE q)

\* Lines 45-46: a width in SPICE notation.
FormatW(W_um) ==
    IF FLeq(F(1, 0), W_um)
    THEN [digits |-> RoundFixed(W_um, 2), decimals |-> 2, suffix |-> "u"]
    ELSE [digits |-> RoundFixed(FMul(W_um, F(1000, 0)), 0), decimals |-> 0,
          suffix |-> "n"]

\* The channel length formatted by the rule of the widths.
FormatLLikeWidth(L_um) == FormatW(L_um)

\* Line 47: the channel length in SPICE notation.
FormatL(L_um) ==
    IF FLeq(F(1, -1), L_um)
    THEN [digits |-> RoundFixed(L_um, 3), decimals |-> 3, suffix |-> "u"]
    ELSE [digits |-> RoundFixed(FMul(L_um, F(1000, 0)), 0), decimals |-> 0,
          suffix |-> "n"]

\* The failure outcome of lines 42, 51, 70, 76 and 111.
Failure == [success |-> FALSE, delay_ns |-> F(1, 6), tphl |-> F(1, 6),
            tplh |-> F(1, 6)]

\* Lines 78-93: the two measurements after the structured reader and, when
\* the reader raised, the textual scan; or the exception the scan raises.
ExtractMeasures(env) ==
    LET tphl0 == IF env.reader \in {"ok", "tplh_raise"} THEN env.r_tphl ELSE None
        tplh0 == IF env.reader = "ok" THEN env.r_tplh ELSE None
    IN  IF env.reader = "ok" THEN [tphl |-> tphl0, tplh |-> tplh0]
        ELSE IF env.text = "open_raise" THEN Exception("OSError")
        ELSE IF env.t_tphl = Bad \/ env.t_tplh = Bad THEN Exception("ValueError")
        ELSE [tphl |-> IF env.t_tphl # None THEN env.t_tphl ELSE tphl0,
              tplh |-> IF env.t_tplh # None THEN env.t_tplh ELSE tplh0]

\* A missing measurement replaced by zero.
MissingMeasureZero == F(0, 0)

\* Lines 95-98: the 1 microsecond sentinel of a missing measurement.
MissingMeasure == F(1, -6)

\* Lines 95-108: sentinel substitution, averaging and conversion to ns; or
\* the exception float() raises.
SuccessOutcome(meas) ==
    LET tphl == IF meas.tphl = None THEN MissingMeasure ELSE meas.tphl
        tplh == IF meas.tplh = None THEN MissingMeasure ELSE meas.tplh
        tpd  == FDiv(FAdd(tphl, tplh), F(2, 0))
    IN  IF tphl = Bad \/ tplh = Bad THEN Exception("ValueError")
        ELSE [success  |-> TRUE,
              delay_ns |-> FMul(tpd, F(1, 9)),
              tphl     |-> FMul(tphl, F(1, 9)),
              tplh     |-> FMul(tplh, F(1, 9))]

\* Line 61: simulations are run one at a time.
parallel_sims == 1

\* Line 62: the time limit of one simulation run, in seconds.
RunnerTimeout == 120

\* Line 67: the time limit of the wait for completion, in seconds.
WaitTimeout == 130

\* A call that never returns.
Blocked == [blocked |-> TRUE]

IsBlocked(r) == "blocked" \in DOMAIN r

\* The wait without a time limit: it never returns while the simulator
\* hangs.
WaitWithoutLimit(env) ==
    IF env.wait = "timeout" THEN "blocked" ELSE "completed"

\* Line 67: runner.wait_completion(timeout=130) returns when the run has
\* ended or, the simulator still running, when its limit has elapsed.
WaitCompletion(env) ==
    IF env.wait = "timeout" THEN "expired" ELSE "completed"

\* The run counted as failed only when both conditions hold.
RunFailedBoth(env) == env.failSim > 0 /\ env.completed = 0

\* Line 69: a failed simulation, or no completed task.
RunFailed(env) == env.failSim > 0 \/ env.completed = 0

\* Lines 53-111: the body of the try block; every exception raised in it
\* is caught by line 109 and becomes the failure outcome.
TryBlock(env) ==
    LET meas == ExtractMeasures(env)
        out  == SuccessOutcome(meas)
        upto == <<"format", "template_check", "editor">>
    IN  IF env.editor = "raise"
        THEN [ret |-> Failure, trace |-> upto, params |-> None]
        ELSE IF env.run = "raise"
             THEN [ret |-> Failure, trace |-> upto \o <<"run">>, params |-> None]
        ELSE IF WaitCompletion(env) = "blocked"
             THEN [ret |-> Blocked, trace |-> upto \o <<"run", "wait">>,
                   params |-> None]
        ELSE IF RunFailed(env)
             THEN [ret |-> Failure, trace |-> upto \o <<"run", "wait">>,
                   params |-> None]
        ELSE IF env.log # "exists"
             THEN [ret |-> Failure,
                   trace |-> upto \o <<"run", "wait", "log_check">>,
                   params |-> None]
        ELSE [ret |-> IF Raised(meas) THEN Failure
                      ELSE IF Raised(out) THEN Failure ELSE out,
              trace |-> upto \o <<"run", "wait", "log_check", "reader">>
                        \o (IF env.reader = "ok" THEN <<>> ELSE <<"text_scan">>),
              params |-> None]

\* Lines 44-111: the call once spicelib is known to be available.
Available(Wn_um, Wp_um, L_um, env) ==
    IF ~(IsFloat(Wn_um) /\ IsFloat(Wp_um) /\ IsFloat(L_um))
    THEN [ret |-> Exception("TypeError"), trace |-> <<"format">>,
          params |-> None]
    ELSE IF env.exists = "raise"
         THEN [ret |-> Exception("PermissionError"),
               trace |-> <<"format", "template_check">>, params |-> None]
    ELSE IF env.exists = "no"
         THEN [ret |-> Failure, trace |-> <<"format", "template_check">>,
               params |-> None]
    ELSE [TryBlock(env) EXCEPT
            !.params = <<FormatW(Wn_um), FormatW(Wp_um), FormatL(L_um)>>]

\* The call without the availability check of lines 41-42.
RunWithoutAvailabilityCheck(avail, Wn_um, Wp_um, L_um, env) ==
    Available(Wn_um, Wp_um, L_um, env)

\* run_simulation_and_extract_delay(Wn_um, Wp_um, L_um) under the toolchain
\* behaviour env: what the call returns or raises (ret), the steps it went
\* through (trace) and the strings given to the circuit editor (params).
run_simulation_and_extract_delay(avail, Wn_um, Wp_um, L_um, env) ==
    IF ~avail THEN [ret |-> Failure, trace |-> <<>>, params |-> None]
    ELSE Available(Wn_um, Wp_um, L_um, env)

\* ------------------------------------------------------------------------
\* Behaviours of the external toolchain during one call
\* ------------------------------------------------------------------------

\* Measurements the simulator can report, in seconds.
MeasA == F(1, -10)

MeasB == F(3, -10)

MeasBig == F(2, 0)

MeasValues == {MeasA, MeasB, MeasBig}

\* What a reader or the textual scan can yield for one measurement.
Yields == MeasValues \cup {None, Bad}

\* A run in which every step succeeds and the reader supplies both values.
EnvOk == [exists |-> "yes", editor |-> "ok", run |-> "ok", wait |-> "completed",
          failSim |-> 0, completed |-> 1, log |-> "exists", reader |-> "ok",
          r_tphl |-> MeasA, r_tplh |-> MeasA, text |-> "ok",
          t_tphl |-> None, t_tplh |-> None]

\* cir_file.exists() is false or raises.
EnvsTemplate == {[EnvOk EXCEPT !.exists = v] : v \in {"no", "raise"}}

\* SpiceEditor / set_parameter, or SimRunner / runner.run, raises.
EnvsSubmit == {[EnvOk EXCEPT !.editor = "raise"], [EnvOk EXCEPT !.run = "raise"]}

\* The run ends with a failed simulation, or the wait ends (by completion
\* or by its timeout) with no completed task.
EnvsRun == {e \in {[EnvOk EXCEPT !.failSim = f, !.completed = c, !.wait = w] :
                      f \in {0, 1}, c \in {0, 1}, w \in {"completed", "timeout"}} :
              /\ ~(e.failSim = 0 /\ e.completed = 1)
              /\ ~(e.wait = "timeout" /\ e.completed = 1)}

\* task.log_file is None, or names a file that does not exist.
EnvsLog == {[EnvOk EXCEPT !.log = v] : v \in {"none", "missing"}}

\* The structured reader returns both measurements.
EnvsReader == {[EnvOk EXCEPT !.r_tphl = a, !.r_tplh = b] : a, b \in Yields}

\* The structured reader raises (in its constructor, on tphl or on tplh)
\* and the textual scan runs: open() raises, or each pattern yields a value,
\* no match, or a match float() rejects.
EnvsFallback ==
    {[EnvOk EXCEPT !.reader = r, !.r_tphl = a, !.r_tplh = None,
                   !.text = "open_raise"] :
        r \in {"ctor_raise", "tphl_raise", "tplh_raise"}, a \in {None}}
    \cup {[EnvOk EXCEPT !.reader = r, !.r_tphl = None, !.r_tplh = None,
                        !.t_tphl = a, !.t_tplh = b] :
            r \in {"ctor_raise", "tphl_raise"}, a, b \in Yields}
    \cup {[EnvOk EXCEPT !.reader = "tplh_raise", !.r_tphl = c, !.r_tplh = None,
                        !.t_tphl = a, !.t_tplh = b] :
            a, b, c \in Yields}

\* The structured reader returns without raising, with None for a
\* measurement the raw log text nevertheless contains.
EnvsReaderNone ==
    {[EnvOk EXCEPT !.r_tphl = a, !.r_tplh = b, !.t_tphl = MeasA, !.t_tplh = MeasB] :
        a, b \in {None, MeasB}}

Envs == EnvsTemplate \cup EnvsSubmit \cup EnvsRun \cup EnvsLog \cup EnvsReader
        \cup EnvsFallback \cup EnvsReaderNone

\* The behaviours one candidate of the grid search is run under.
GridEnvs ==
    {[EnvOk EXCEPT !.exists = "no"],
     [EnvOk EXCEPT !.exists = "raise"],
     [EnvOk EXCEPT !.wait = "timeout", !.completed = 0],
     EnvOk,
     [EnvOk EXCEPT !.r_tphl = MeasBig, !.r_tplh = MeasBig],
     [EnvOk EXCEPT !.reader = "ctor_raise", !.r_tphl = None, !.r_tplh = None,
                   !.t_tplh = MeasA]}

\* Arguments of a direct call: dimensions in micrometres, or None.
CallArgs == {<<Wn, Wp, L>> : Wn \in {F(1, 0), F(5, -1), None},
                             Wp \in {F(3, 0), None},
                             L  \in {F(35, -2), F(5, -2), F(1, 0), None}}

\* ------------------------------------------------------------------------
\* State
\* ------------------------------------------------------------------------

VARIABLES
    SPICELIB_AVAILABLE, \* lines 15-22: whether spicelib could be imported
    call,               \* the last call of run_simulation_and_extract_delay
    pc,                 \* position in optimize_with_simulator
    wi, pi,             \* indices of the loops over Wn_values and Wp_values
    best_delay,         \* line 142
    best_params,        \* line 143
    history,            \* the calls made by the grid search, in order
    report,             \* what the search printed at its end
    fs,                 \* files: sim_output, the library, its copy, results
    copies,             \* copies of the library made so far
    writes,             \* writes of the results file by the current run
    x, perf, fg         \* last analytical evaluation: input, record, (f, g)

vars == <<SPICELIB_AVAILABLE, call, pc, wi, pi, best_delay, best_params,
          history, report, fs, copies, writes, x, perf, fg>>

gridVars == <<pc, wi, pi, best_delay, best_params, history, report, fs,
              copies, writes>>

\* ------------------------------------------------------------------------
\* src/optimize_inverter_ltspice.py: optimize_with_simulator
\* ------------------------------------------------------------------------

Wn_values == <<F(1, 0), F(2, 0), F(3, 0)>>

Wp_values == <<F(3, 0), F(6, 0), F(9, 0)>>

L_val == F(35, -2)

\* The window with its upper bound excluded.
OutOfWindowExclusive(Wn, Wp) ==
    FLess(FDiv(Wp, Wn), F(12, -1)) \/ FLeq(F(45, -1), FDiv(Wp, Wn))

\* Line 147: the pair is skipped.
OutOfWindow(Wn, Wp) ==
    FLess(FDiv(Wp, Wn), F(12, -1)) \/ FLess(F(45, -1), FDiv(Wp, Wn))

\* The copy also due when the destination is as new as the source.
CopyDueOnEqual(f) ==
    f.lib_src # None /\ (f.lib_dst = None \/ f.lib_src.mtime >= f.lib_dst.mtime)

\* Line 130: the library copy is due.
CopyDue(f) ==
    f.lib_src # None /\ (f.lib_dst = None \/ f.lib_src.mtime > f.lib_dst.mtime)

\* The guidance printed without the return of line 122: the function goes
\* on to the directory, the library copy and the loops.
UnavailableFallsThrough ==
    /\ pc = "start"
    /\ ~SPICELIB_AVAILABLE
    /\ report' = "spicelib not installed"
    /\ fs' = [fs EXCEPT !.sim_out = TRUE,
                        !.lib_dst = IF CopyDue(fs) THEN fs.lib_src ELSE @]
    /\ copies' = IF CopyDue(fs) THEN copies + 1 ELSE copies
    /\ best_delay' = F(1, 9)
    /\ best_params' = None
    /\ wi' = 1
    /\ pi' = 1
    /\ pc' = "loop"
    /\ UNCHANGED <<SPICELIB_AVAILABLE, call, history, writes, x, perf, fg>>

\* Lines 120-122: without spicelib the function prints guidance and returns.
Unavailable ==
    /\ pc = "start"
    /\ ~SPICELIB_AVAILABLE
    /\ pc' = "done"
    /\ report' = "spicelib not installed"
    /\ UNCHANGED <<SPICELIB_AVAILABLE, call, wi, pi, best_delay, best_params,
                   history, fs, copies, writes, x, perf, fg>>

\* Lines 124-143: create sim_output, refresh the library copy (copy2 keeps
\* the modification time), initialise the incumbent.
Setup ==
    /\ pc = "start"
    /\ SPICELIB_AVAILABLE
    /\ fs' = [fs EXCEPT !.sim_out = TRUE,
                        !.lib_dst = IF CopyDue(fs) THEN fs.lib_src ELSE @]
    /\ copies' = IF CopyDue(fs) THEN copies + 1 ELSE copies
    /\ best_delay' = F(1, 9)
    /\ best_params' = None
    /\ wi' = 1
    /\ pi' = 1
    /\ pc' = "loop"
    /\ UNCHANGED <<SPICELIB_AVAILABLE, call, history, report, writes, x, perf, fg>>

\* The loop header: the next pair, or the end of both loops.
Advance ==
    IF pi < Len(Wp_values) THEN wi' = wi /\ pi' = pi + 1 /\ pc' = "loop"
    ELSE IF wi < Len(Wn_values) THEN wi' = wi + 1 /\ pi' = 1 /\ pc' = "loop"
    ELSE wi' = wi /\ pi' = pi /\ pc' = "report"

\* Lines 147-148: a pair outside the ratio window is skipped.
Skip ==
    /\ pc = "loop"
    /\ OutOfWindow(Wn_values[wi], Wp_values[pi])
    /\ Advance
    /\ UNCHANGED <<SPICELIB_AVAILABLE, call, best_delay, best_params, history,
                   report, fs, copies, writes, x, perf, fg>>

\* The incumbent replaced on an equal delay.
IncumbentOnEqual(result, Wn, Wp, delay, params) ==
    IF ~Raised(result) /\ result.success /\ FLeq(result.delay_ns, delay)
    THEN [delay |-> result.delay_ns, params |-> <<Wn, Wp, L_val>>]
    ELSE [delay |-> delay, params |-> params]

\* The incumbent updated without looking at success.
IncumbentIgnoringSuccess(result, Wn, Wp, delay, params) ==
    IF ~Raised(result) /\ FLess(result.delay_ns, delay)
    THEN [delay |-> result.delay_ns, params |-> <<Wn, Wp, L_val>>]
    ELSE [delay |-> delay, params |-> params]

\* Lines 151-155: the incumbent after an outcome.
Incumbent(result, Wn, Wp, delay, params) ==
    IF ~Raised(result) /\ result.success /\ FLess(result.delay_ns, delay)
    THEN [delay |-> result.delay_ns, params |-> <<Wn, Wp, L_val>>]
    ELSE [delay |-> delay, params |-> params]

\* Lines 149-157: one candidate is simulated and the incumbent updated; an
\* exception raised by the call ends optimize_with_simulator.
EvaluateUnder(envs) ==
    /\ pc = "loop"
    /\ ~OutOfWindow(Wn_values[wi], Wp_values[pi])
    /\ \E env \in envs :
         \E r \in {run_simulation_and_extract_delay(SPICELIB_AVAILABLE,
                       Wn_values[wi], Wp_values[pi], L_val, env)} :
           \E inc \in {Incumbent(r.ret, Wn_values[wi], Wp_values[pi],
                                 best_delay, best_params)} :
             /\ call' = [args |-> <<Wn_values[wi], Wp_values[pi], L_val>>,
                         env |-> env, ret |-> r.ret, trace |-> r.trace,
                         params |-> r.params]
             /\ history' = Append(history, [Wn |-> Wn_values[wi],
                                            Wp |-> Wp_values[pi], L |-> L_val,
                                            ret |-> r.ret])
             /\ IF Raised(r.ret)
                THEN /\ pc' = "crashed"
                     /\ UNCHANGED <<wi, pi, best_delay, best_params>>
                ELSE /\ best_delay' = inc.delay
                     /\ best_params' = inc.params
                     /\ Advance
    /\ UNCHANGED <<SPICELIB_AVAILABLE, report, fs, copies, writes, x, perf, fg>>

Evaluate == EvaluateUnder(GridEnvs)

\* The report saving the loop variables Wn and Wp, which hold the last pair
\* enumerated, in place of best_params.
ReportLoopVariables ==
    /\ pc = "report"
    /\ pc' = "done"
    /\ IF best_params # None
       THEN /\ report' = "best solution"
            /\ perf' = compute_performances(best_params[1], best_params[2],
                                            best_params[3])
            /\ fs' = [fs EXCEPT !.results =
                        [Wn |-> Wn_values[wi], Wp |-> Wp_values[pi],
                         L |-> best_params[3],
                         tpd_ns |-> [digits |-> RoundFixed(best_delay, 3),
                                     decimals |-> 3]]]
            /\ writes' = writes + 1
       ELSE /\ report' = "no simulation succeeded"
            /\ UNCHANGED <<perf, fs, writes>>
    /\ UNCHANGED <<SPICELIB_AVAILABLE, call, wi, pi, best_delay, best_params,
                   history, copies, x, fg>>

\* Lines 159-179: the best solution is printed with its analytical
\* performances and saved, or the absence of any success is reported.
Report ==
    /\ pc = "report"
    /\ pc' = "done"
    /\ IF best_params # None
       THEN /\ report' = "best solution"
            /\ perf' = compute_performances(best_params[1], best_params[2],
                                            best_params[3])
            /\ fs' = [fs EXCEPT !.results =
                        [Wn |-> best_params[1], Wp |-> best_params[2],
                         L |-> best_params[3],
                         tpd_ns |-> [digits |-> RoundFixed(best_delay, 3),
                                     decimals |-> 3]]]
            /\ writes' = writes + 1
       ELSE /\ report' = "no simulation succeeded"
            /\ UNCHANGED <<perf, fs, writes>>
    /\ UNCHANGED <<SPICELIB_AVAILABLE, call, wi, pi, best_delay, best_params,
                   history, copies, x, fg>>

NoCall == [args |-> None, env |-> None, ret |-> None, trace |-> <<>>,
           params |-> None]

\* Modification times of the library and of its copy.
Mtime(n) == [mtime |-> n]

\* The files before a run: no library; or the library with its copy
\* absent, older or as new. No results file.
InitialFiles ==
    {[sim_out |-> FALSE, lib_src |-> None, lib_dst |-> None, results |-> None],
     [sim_out |-> FALSE, lib_src |-> Mtime(2), lib_dst |-> None, results |-> None],
     [sim_out |-> TRUE, lib_src |-> Mtime(2), lib_dst |-> Mtime(1), results |-> None],
     [sim_out |-> TRUE, lib_src |-> Mtime(2), lib_dst |-> Mtime(2), results |-> None]}

Init ==
    /\ SPICELIB_AVAILABLE \in BOOLEAN
    /\ call = NoCall
    /\ pc = "start"
    /\ wi = 1
    /\ pi = 1
    /\ best_delay = None
    /\ best_params = None
    /\ history = <<>>
    /\ report = ""
    /\ fs \in InitialFiles
    /\ copies = 0
    /\ writes = 0
    /\ x = None
    /\ perf = None
    /\ fg = None

Next == Unavailable \/ Setup \/ Skip \/ Evaluate \/ Report

Spec == Init /\ [][Next]_vars

\* ------------------------------------------------------------------------
\* Repeated runs of the script over the same files
\* ------------------------------------------------------------------------

\* The behaviours one candidate is run under when the script is run again
\* and again: success, a missing template, a template check that raises.
RerunEnvs == {EnvOk, [EnvOk EXCEPT !.exists = "no"],
              [EnvOk EXCEPT !.exists = "raise"]}

EvaluateRerun == EvaluateUnder(RerunEnvs)

\* Lines 182-183: the script is run again after a run that ended or was
\* ended by an exception; the files stay as the earlier runs left them and
\* the library source is not modified in between.
Restart ==
    /\ pc \in {"done", "crashed"}
    /\ pc' = "start"
    /\ call' = NoCall
    /\ wi' = 1
    /\ pi' = 1
    /\ best_delay' = None
    /\ best_params' = None
    /\ history' = <<>>
    /\ report' = ""
    /\ writes' = 0
    /\ perf' = None
    /\ UNCHANGED <<SPICELIB_AVAILABLE, fs, copies, x, fg>>

NextRerun == Unavailable \/ Setup \/ Skip \/ EvaluateRerun \/ Report \/ Restart

SpecRerun == Init /\ [][NextRerun]_vars

\* ------------------------------------------------------------------------
\* Direct calls of run_simulation_and_extract_delay
\* ------------------------------------------------------------------------

\* One call, with the arguments and the toolchain behaviour drawn by InitEval.
Call ==
    /\ pc = "call"
    /\ call.ret = None
    /\ \E r \in {run_simulation_and_extract_delay(SPICELIB_AVAILABLE,
                    call.args[1], call.args[2], call.args[3], call.env)} :
         call' = [call EXCEPT !.ret = r.ret, !.trace = r.trace,
                              !.params = r.params]
    /\ UNCHANGED <<SPICELIB_AVAILABLE, x, perf, fg>>
    /\ UNCHANGED gridVars

Idle ==
    /\ wi = 1
    /\ pi = 1
    /\ best_delay = None
    /\ best_params = None
    /\ history = <<>>
    /\ report = ""
    /\ fs = [sim_out |-> FALSE, lib_src |-> None, lib_dst |-> None,
             results |-> None]
    /\ copies = 0
    /\ writes = 0

InitEval ==
    /\ SPICELIB_AVAILABLE \in BOOLEAN
    /\ call \in {[NoCall EXCEPT !.args = a, !.env = e] :
                   a \in CallArgs, e \in Envs}
    /\ pc = "call"
    /\ Idle
    /\ x = None
    /\ perf = None
    /\ fg = None

NextEval == Call

SpecEval == InitEval /\ [][NextEval]_vars

\* ------------------------------------------------------------------------
\* Calls of the analytical evaluator and of the MIDACO callback
\* ------------------------------------------------------------------------

\* Sample dimensions in nanometres: degenerate, around the 0.01 um
\* threshold, the declared bounds, and the ratio boundaries.
WnSamples == {-1000, 0, 5, 10, 11, 500, 1000, 2000, 50000}

WpSamples == {0, 500, 1190, 1200, 4500, 4510, 6000, 150000}

LSamples == {0, 350, 1000}

\* Positive dimensions at the edge of the float range: a length whose
\* conversion to metres underflows, widths that do.
TinyPoints == {<<F(1, 0), F(3, 0), F(1, -320)>>,
               <<F(1, -320), F(1, -320), F(35, -2)>>}

Points == {<<F(a, -3), F(b, -3), F(c, -3)>> :
             a \in WnSamples, b \in WpSamples, c \in LSamples}
          \cup TinyPoints

\* compute_performances on the point drawn by InitPerf.
CallPerf ==
    /\ pc = "perf"
    /\ perf = None
    /\ fg = None
    /\ perf' = compute_performances(x[1], x[2], x[3])
    /\ UNCHANGED <<SPICELIB_AVAILABLE, call, x, fg>>
    /\ UNCHANGED gridVars

\* compute_performances_for_optim on the point drawn by InitPerf.
CallForOptim ==
    /\ pc = "perf"
    /\ fg = None
    /\ fg' = compute_performances_for_optim(x)
    /\ UNCHANGED <<SPICELIB_AVAILABLE, call, x, perf>>
    /\ UNCHANGED gridVars

InitPerf ==
    /\ SPICELIB_AVAILABLE = FALSE
    /\ call = NoCall
    /\ pc = "perf"
    /\ Idle
    /\ x \in Points
    /\ perf = None
    /\ fg = None

NextPerf == CallPerf \/ CallForOptim

SpecPerf == InitPerf /\ [][NextPerf]_vars

\* ------------------------------------------------------------------------
\* Properties of run_simulation_and_extract_delay (SpecEval)
\* ------------------------------------------------------------------------

\* The call drawn by InitEval has ended.
Called == pc = "call" /\ call.ret # None

\* The call returned an outcome record.
Returned == Called /\ ~Raised(call.ret)

NumericArgs == IsFloat(call.args[1]) /\ IsFloat(call.args[2]) /\ IsFloat(call.args[3])

IsFailureRecord(r) ==
    /\ r.success = FALSE
    /\ r.delay_ns = F(1, 6)
    /\ r.tphl = F(1, 6)
    /\ r.tplh = F(1, 6)

\* The steps before the run's result is read all succeeded.
RunCompleted ==
    /\ NumericArgs
    /\ call.env.exists = "yes"
    /\ call.env.editor = "ok"
    /\ call.env.run = "ok"
    /\ call.env.failSim = 0
    /\ call.env.completed = 1
    /\ call.env.log = "exists"

\* An exception is raised in one of the steps 2-6: by the formatting of a
\* non-numeric dimension, by the template check, by the editor or the
\* runner, by opening the log for the textual scan, or by float() on a
\* measurement.
ExceptionInSteps2To6 ==
    \/ ~NumericArgs
    \/ call.env.exists = "raise"
    \/ call.env.exists = "yes" /\ call.env.editor = "raise"
    \/ call.env.exists = "yes" /\ call.env.editor = "ok" /\ call.env.run = "raise"
    \/ RunCompleted /\ call.env.reader # "ok" /\ call.env.text = "open_raise"
    \/ RunCompleted /\ call.env.reader # "ok" /\ call.env.text = "ok"
         /\ (call.env.t_tphl = Bad \/ call.env.t_tplh = Bad)
    \/ RunCompleted /\ call.env.reader = "ok"
         /\ (call.env.r_tphl = Bad \/ call.env.r_tplh = Bad)

\* C1: run_simulation_and_extract_delay never propagates an exception: for
\* every input and every behaviour of the toolchain the call returns an
\* outcome record, and an exception raised in steps 2-6 (formatting,
\* template check, submit and wait, log retrieval, extraction) yields the
\* failure outcome.
C1_NeverPropagates ==
    Called =>
      /\ ~Raised(call.ret)
      /\ (SPICELIB_AVAILABLE /\ ExceptionInSteps2To6) => IsFailureRecord(call.ret)

\* C2: without the toolchain the call returns the failure outcome
\* {success: False, delay_ns: 1e6} for every input, without raising and
\* without reaching any later step: nothing is formatted, the template is not
\* checked, the circuit is not parameterized, nothing is submitted.
C2_UnavailableIsFailure ==
    (Called /\ ~SPICELIB_AVAILABLE) =>
      /\ ~Raised(call.ret)
      /\ call.ret.success = FALSE
      /\ call.ret.delay_ns = F(1, 6)
      /\ call.trace = <<>>
      /\ call.params = None

\* C2 witness: an unavailable toolchain, and a call whose arguments and
\* template check would have raised had the later steps been reached.
C2_Witness ==
    /\ Called
    /\ ~SPICELIB_AVAILABLE
    /\ call.args[1] = None
    /\ call.env.exists = "raise"
    /\ call.ret.success = FALSE

Submitted == \E i \in 1..Len(call.trace) : call.trace[i] = "run"

\* C3: every returned outcome carries a numeric delay_ns; success is True
\* only if the template existed, the run was submitted, no simulation failed,
\* a task completed and the log exists; a missing template, a failed run, no
\* completed task or a missing log gives the failure record with
\* delay_ns = tphl = tplh = 1e6; the simulator is never submitted when the
\* template is missing.
C3_OutcomeShape ==
    Returned =>
      /\ IsFloat(call.ret.delay_ns)
      /\ call.ret.success =>
           /\ SPICELIB_AVAILABLE
           /\ call.env.exists = "yes"
           /\ Submitted
           /\ call.env.failSim = 0
           /\ call.env.completed >= 1
           /\ call.env.log = "exists"
      /\ (\/ call.env.exists = "no"
          \/ call.env.failSim > 0
          \/ call.env.completed = 0
          \/ call.env.log # "exists") => IsFailureRecord(call.ret)
      /\ call.env.exists = "no" => ~Submitted

\* C3 witness: the toolchain is available, the run was submitted and a
\* simulation failed although a task completed.
C3_Witness ==
    /\ Returned
    /\ SPICELIB_AVAILABLE
    /\ Submitted
    /\ call.env.failSim > 0
    /\ call.env.completed = 1
    /\ call.ret.success = FALSE

\* The steps before extraction all succeeded, and so did opening the log
\* for the textual scan when the reader raised.
Completed ==
    /\ Called
    /\ SPICELIB_AVAILABLE
    /\ RunCompleted
    /\ call.env.reader # "ok" => call.env.text = "ok"

\* The log yields nothing for tphl (for tplh): the reader returned None
\* for it or raised before returning it, and the textual scan, when it ran,
\* found no match.
NoTphl ==
    \/ call.env.reader = "ok" /\ call.env.r_tphl = None
    \/ call.env.reader \in {"ctor_raise", "tphl_raise"} /\ call.env.t_tphl = None
    \/ call.env.reader = "tplh_raise" /\ call.env.r_tphl = None
         /\ call.env.t_tphl = None

NoTplh ==
    \/ call.env.reader = "ok" /\ call.env.r_tplh = None
    \/ call.env.reader # "ok" /\ call.env.t_tplh = None

\* The log yields the value v for tphl (for tplh).
TphlIs(v) ==
    \/ call.env.reader = "ok" /\ call.env.r_tphl = v
    \/ call.env.reader # "ok" /\ call.env.t_tphl = v /\ call.env.t_tplh # Bad
    \/ call.env.reader = "tplh_raise" /\ call.env.r_tphl = v
         /\ call.env.t_tphl = None /\ call.env.t_tplh # Bad

TplhIs(v) ==
    \/ call.env.reader = "ok" /\ call.env.r_tplh = v
    \/ call.env.reader # "ok" /\ call.env.t_tplh = v /\ call.env.t_tphl # Bad

Ns(v) == FMul(v, F(1, 9))

Mean(a, b) == FDiv(FAdd(a, b), F(2, 0))

EnumeratedPairs ==
    [k \in 1..9 |-> <<<<1, 2, 3>>[((k - 1) \div 3) + 1], <<3, 6, 9>>[((k - 1) % 3) + 1]>>]

\* 1.2 <= Wp/Wn <= 4.5 in exact integer arithmetic.
InWindowExact(p) == 12 * p[1] <= 10 * p[2] /\ 10 * p[2] <= 45 * p[1]

ExpectedPairs == SelectSeq(EnumeratedPairs, InWindowExact)

\* The loops have run to their end.
LoopDone == pc = "report" \/ (pc = "done" /\ SPICELIB_AVAILABLE)

Succeeded(i) == ~Raised(history[i].ret) /\ history[i].ret.success

\* C5: the calls made by the grid search are exactly the pairs with
\* 1.2 <= Wp/Wn <= 4.5 (bounds inclusive), with L = 0.35, each once and in
\* enumeration order; the other pairs are skipped without a call, and a
\* failed evaluation is not retried.
C5_ExactlyWindowPairs ==
    /\ Len(history) <= Len(ExpectedPairs)
    /\ \A i \in 1..Len(history) :
         /\ history[i].Wn = F(ExpectedPairs[i][1], 0)
         /\ history[i].Wp = F(ExpectedPairs[i][2], 0)
         /\ history[i].L = F(35, -2)
    /\ pc = "loop" =>
         Len(history) = Cardinality({k \in 1..(3 * (wi - 1) + pi - 1) :
                                       InWindowExact(EnumeratedPairs[k])})
    /\ LoopDone => Len(history) = Len(ExpectedPairs)
    /\ ExpectedPairs = <<<<1, 3>>, <<2, 3>>, <<2, 6>>, <<2, 9>>, <<3, 6>>, <<3, 9>>>>

\* C5 witness: the search ended after six calls, the first of which failed
\* and the boundary pair (2, 9) of ratio 4.5 was evaluated.
C5_Witness ==
    /\ pc = "done"
    /\ Len(history) = 6
    /\ ~Succeeded(1)
    /\ history[4].Wn = F(2, 0)
    /\ history[4].Wp = F(9, 0)

\* The incumbent is the first successful outcome of minimum delay, provided
\* that delay is below the initial 1e9; otherwise it is unset.
C6_IncumbentIsFirstMinimum ==
    pc \in {"loop", "report", "done", "crashed"} /\ SPICELIB_AVAILABLE =>
      LET winners == {i \in 1..Len(history) :
                        Succeeded(i) /\ FLess(history[i].ret.delay_ns, best_delay)}
          holders == {i \in 1..Len(history) :
                        /\ Succeeded(i)
                        /\ history[i].ret.delay_ns = best_delay
                        /\ best_params = <<history[i].Wn, history[i].Wp, history[i].L>>}
      IN  /\ winners = {}
          /\ IF best_params = None THEN best_delay = F(1, 9)
             ELSE /\ holders # {}
                  /\ \A i \in 1..Len(history) :
                       (Succeeded(i) /\ history[i].ret.delay_ns = best_delay)
                          => \E h \in holders : h <= i

\* A step of the loop changes the incumbent only on a successful outcome
\* whose delay is strictly below the current best_delay.
C6_ChangeOnlyOnImprovement ==
    (pc = "loop" /\ (best_params' # best_params \/ best_delay' # best_delay)) =>
       /\ ~Raised(call'.ret)
       /\ call'.ret.success
       /\ FLess(call'.ret.delay_ns, best_delay)
       /\ best_delay' = call'.ret.delay_ns
       /\ best_params' = call'.args

\* C6: the incumbent changes only when an outcome has success True and a
\* delay strictly smaller than best_delay; a failed outcome never becomes the
\* incumbent, an equal delay does not replace it, and the incumbent, when
\* set, is a pair evaluated with success whose delay is the minimum over the
\* successful outcomes so far.
C6_Incumbent == [](C6_IncumbentIsFirstMinimum) /\ [][C6_ChangeOnlyOnImprovement]_vars

\* C6 witness: a failed outcome, then two successes of equal delay; the
\* incumbent is the earlier of the two.
C6_Witness ==
    /\ pc = "loop"
    /\ Len(history) = 3
    /\ ~Succeeded(1)
    /\ Succeeded(2)
    /\ Succeeded(3)
    /\ history[2].ret.delay_ns = history[3].ret.delay_ns
    /\ best_params = <<history[2].Wn, history[2].Wp, history[2].L>>

\* C7: if every evaluated candidate fails, the search ends with best_params
\* None, reports that no simulation succeeded and writes no results file.
C7_AllFailed ==
    (pc = "done" /\ history # <<>> /\ \A i \in 1..Len(history) : ~Succeeded(i)) =>
       /\ best_params = None
       /\ report = "no simulation succeeded"
       /\ fs.results = None
       /\ writes = 0

\* C7 witness: the search ended after six failed candidates.
C7_Witness ==
    /\ pc = "done"
    /\ Len(history) = 6
    /\ \A i \in 1..Len(history) : ~Succeeded(i)
    /\ report = "no simulation succeeded"

\* ------------------------------------------------------------------------
\* Properties of the analytical evaluator (SpecPerf)
\* ------------------------------------------------------------------------

\* A dimension of the evaluated point in nanometres.
Nm(v) == RoundFixed(v, 3)

\* compute_performances_for_optim was called on a point of positive length.
OptimCalled == pc = "perf" /\ fg # None /\ Nm(x[3]) > 0

InBounds(v, i) == FLeq(problem_xl[i], v) /\ FLeq(v, problem_xu[i])

BoundedPoints == {p \in Points : \A i \in 1..3 : InBounds(p[i], i)}

\* C10: for Wn <= 0 with Wp and L inside the declared bounds
\* compute_performances returns a record without raising, the 1e12 sentinel
\* standing for the resistance, and its delay is strictly greater than the
\* delay of every point inside the bounds.
C10_DegenerateWidth ==
    (pc = "perf" /\ perf # None /\ Nm(x[1]) <= 0
       /\ InBounds(x[2], 2) /\ InBounds(x[3], 3)) =>
      /\ ~Raised(perf)
      /\ FLeq(FDiv(FMul(FMul(ALPHA_DELAY, F(1, 12)), CL), F(2, 0)), perf.delay)
      /\ \A p \in BoundedPoints :
           FLess(compute_performances(p[1], p[2], p[3]).delay, perf.delay)

\* C10 witness: compute_performances returned for Wn = 0 with the largest
\* Wp and the shortest L of the bounds.
C10_Witness ==
    /\ pc = "perf"
    /\ perf # None
    /\ ~Raised(perf)
    /\ Nm(x[1]) = 0
    /\ x[2] = problem_xu[2]
    /\ x[3] = problem_xl[3]

\* compute_performances was called on the point drawn by InitPerf.
PerfCalled == pc = "perf" /\ perf # None

Positive(v) == FLess(FZero, v)

\* The record has the five fields strictly positive, power_total the sum of
\* the two powers, and the powers at their sizing-independent values
\* C_L * Vdd^2 * f = 1.089e-5 W, I_leak * Vdd = 3.3e-8 W and their sum.
PositiveRecord(r) ==
    /\ ~Raised(r)
    /\ Positive(r.delay)
    /\ Positive(r.power_dyn)
    /\ Positive(r.power_stat)
    /\ Positive(r.power_total)
    /\ Positive(r.area)
    /\ r.power_total = FAdd(r.power_dyn, r.power_stat)
    /\ r.power_dyn = F(1089, -8)
    /\ r.power_stat = F(33, -9)
    /\ r.power_total = F(10923, -9)

\* Every dimension lies between 1e-100 and 1e100 micrometres.
NormalRange(p) ==
    \A i \in 1..3 : FLeq(F(1, -100), p[i]) /\ FLeq(p[i], F(1, 100))

\* C11: for all Wn, Wp, L > 0 compute_performances returns delay,
\* power_dyn, power_stat, power_total and area strictly positive, with
\* power_total = power_dyn + power_stat, and the three powers identical for
\* every point.
C11_PositiveForAllPositive ==
    (PerfCalled /\ Positive(x[1]) /\ Positive(x[2]) /\ Positive(x[3])) =>
       PositiveRecord(perf)

\* C11 amended: the same for dimensions in the normal numeric range, between
\* 1e-100 and 1e100 micrometres.
C11_PositiveInNormalRange ==
    (PerfCalled /\ NormalRange(x)) => PositiveRecord(perf)

\* C11 witness: compute_performances returned for the initial point
\* (2, 6, 0.35) of the optimizer, with an area of 8.4 square micrometres.
C11_Witness ==
    /\ PerfCalled
    /\ x = problem_x
    /\ ~Raised(perf)
    /\ Positive(perf.delay)
    /\ perf.area = F(84, -1)

\* ------------------------------------------------------------------------
\* Measurement extraction and formatting (SpecEval)
\* ------------------------------------------------------------------------

\* The call went through the textual scan of the raw log.
ScanAttempted == \E i \in 1..Len(call.trace) : call.trace[i] = "text_scan"

\* The structured reader supplied a value for tphl (for tplh): it returned
\* one before raising, if it raised at all.
ReaderSuppliesTphl ==
    call.env.reader \in {"ok", "tplh_raise"} /\ call.env.r_tphl # None

ReaderSuppliesTplh == call.env.reader = "ok" /\ call.env.r_tplh # None

\* The raw log text holds a value the regular expression finds.
TextHoldsTphl == call.env.t_tphl \in MeasValues

TextHoldsTplh == call.env.t_tplh \in MeasValues

\* C12: a measurement is replaced by the 1 microsecond sentinel only when
\* neither the structured reader nor the textual scan of the raw log yields
\* a value for it, and whenever the structured reader does not supply a
\* measurement the textual scan is attempted before the sentinel is used.
C12_SentinelOnlyAfterBothPaths ==
    (Completed /\ Returned /\ call.ret.success) =>
      /\ call.ret.tphl = Ns(MissingMeasure) =>
            ~ReaderSuppliesTphl /\ ~TextHoldsTphl
      /\ call.ret.tplh = Ns(MissingMeasure) =>
            ~ReaderSuppliesTplh /\ ~TextHoldsTplh
      /\ ~ReaderSuppliesTphl => ScanAttempted
      /\ ~ReaderSuppliesTplh => ScanAttempted

\* The formatting step ran and its strings reached the circuit editor.
Formatted == Called /\ call.params # None

\* C13: each of Wn, Wp and L is rendered with the micrometre suffix when its
\* value in micrometres is >= 1 and with the nanometre suffix, value times
\* 1000, otherwise: one rule for the three dimensions.
C13_OneRuleForAll ==
    Formatted =>
      \A i \in 1..3 :
        IF Nm(call.args[i]) >= 1000
        THEN call.params[i].suffix = "u"
        ELSE /\ call.params[i].suffix = "n"
             /\ call.params[i].digits = Nm(call.args[i])

\* C13 amended: Wn and Wp are rendered in micrometres with two decimals
\* when >= 1 and in nanometres (value times 1000, no decimals) otherwise; L
\* is rendered in micrometres with three decimals when >= 0.1 and in
\* nanometres otherwise.
C13_WidthRuleAndLengthRule ==
    Formatted =>
      /\ \A i \in 1..2 :
           IF Nm(call.args[i]) >= 1000
           THEN /\ call.params[i].suffix = "u"
                /\ call.params[i].decimals = 2
                /\ call.params[i].digits * 10 = Nm(call.args[i])
           ELSE /\ call.params[i].suffix = "n"
                /\ call.params[i].decimals = 0
                /\ call.params[i].digits = Nm(call.args[i])
      /\ IF Nm(call.args[3]) >= 100
         THEN /\ call.params[3].suffix = "u"
              /\ call.params[3].decimals = 3
              /\ call.params[3].digits = Nm(call.args[3])
         ELSE /\ call.params[3].suffix = "n"
              /\ call.params[3].decimals = 0
              /\ call.params[3].digits = Nm(call.args[3])

\* C13 witness: Wn = 0.5 was rendered as 500n and L = 0.35 as 0.350u.
C13_Witness ==
    /\ Formatted
    /\ call.args[1] = F(5, -1)
    /\ call.params[1] = [digits |-> 500, decimals |-> 0, suffix |-> "n"]
    /\ call.args[3] = F(35, -2)
    /\ call.params[3] = [digits |-> 350, decimals |-> 3, suffix |-> "u"]

\* ------------------------------------------------------------------------
\* Files and termination of optimize_with_simulator (Spec)
\* ------------------------------------------------------------------------

\* Candidate i succeeded with the delay and the parameters held by the
\* incumbent, and no successful candidate has a smaller delay.
IsMinimumSuccess(i) ==
    /\ Succeeded(i)
    /\ history[i].ret.delay_ns = best_delay
    /\ best_params = <<history[i].Wn, history[i].Wp, history[i].L>>
    /\ \A j \in 1..Len(history) :
         Succeeded(j) => FLeq(best_delay, history[j].ret.delay_ns)

\* C14: the results file is written at most once per run, only after every
\* candidate has been evaluated and only when an incumbent exists, and the
\* Wn, Wp, L and tpd_ns it records are those of the final incumbent, the
\* successful candidate of minimum delay.
C14_ResultsWrittenOnceAtEnd ==
    /\ writes <= 1
    /\ writes = 0 => fs.results = None
    /\ writes = 1 =>
         /\ pc = "done"
         /\ Len(history) = Len(ExpectedPairs)
         /\ best_params # None
         /\ fs.results.Wn = best_params[1]
         /\ fs.results.Wp = best_params[2]
         /\ fs.results.L = best_params[3]
         /\ fs.results.tpd_ns = [digits |-> RoundFixed(best_delay, 3), decimals |-> 3]
         /\ \E i \in 1..Len(history) : IsMinimumSuccess(i)

\* C14 witness: the run ended with the file written once, recording the
\* pair (2, 6) and 0.100 ns, after a failed first candidate and a later
\* success of larger delay.
C14_Witness ==
    /\ pc = "done"
    /\ writes = 1
    /\ ~Succeeded(1)
    /\ Succeeded(6)
    /\ FLess(best_delay, history[6].ret.delay_ns)
    /\ fs.results.Wn = F(2, 0)
    /\ fs.results.Wp = F(6, 0)
    /\ fs.results.L = F(35, -2)
    /\ fs.results.tpd_ns = [digits |-> 100, decimals |-> 3]

\* The source exists and the destination is absent or older.
StaleOrAbsent ==
    /\ fs.lib_src # None
    /\ \/ fs.lib_dst = None
       \/ fs.lib_dst.mtime < fs.lib_src.mtime

\* With the source left unmodified the library is copied at most once over
\* all runs, and once a run is past its copy step the destination is not
\* older than the source: the step repeated would copy nothing.
C15_NoSecondCopy ==
    /\ copies <= 1
    /\ (SPICELIB_AVAILABLE /\ pc # "start") =>
         /\ ~StaleOrAbsent
         /\ fs.sim_out
         /\ fs.lib_src # None => fs.lib_dst = fs.lib_src

\* The copy step is taken before any simulation of the run and copies,
\* keeping the modification time, exactly when the destination is stale or
\* absent; no other step touches the library or its copy.
C15_CopyExactlyWhenStale ==
    /\ (pc = "start" /\ pc' = "loop") =>
         /\ history = <<>>
         /\ history' = <<>>
         /\ IF StaleOrAbsent
            THEN copies' = copies + 1 /\ fs'.lib_dst = fs.lib_src
            ELSE copies' = copies /\ fs'.lib_dst = fs.lib_dst
    /\ ~(pc = "start" /\ pc' = "loop") =>
         copies' = copies /\ fs'.lib_dst = fs.lib_dst
    /\ fs'.lib_src = fs.lib_src

\* C15: the library copy step runs before the first simulation and copies
\* the library exactly when the source exists and the destination is absent
\* or older than the source; a destination as new as the source is not
\* rewritten, so repeating the step or the whole run with an unchanged
\* source performs no second copy, the copy preserving the modification time.
C15_LibraryCopy == [](C15_NoSecondCopy) /\ [][C15_CopyExactlyWhenStale]_vars

\* C15 witness: a second run, started after a run that copied the library
\* and wrote its results, is past its copy step without a second copy.
C15_Witness ==
    /\ pc = "loop"
    /\ SPICELIB_AVAILABLE
    /\ fs.results # None
    /\ writes = 0
    /\ copies = 1
    /\ fs.lib_dst = Mtime(2)

\* The number of simulations the call submitted.
Submissions == Cardinality({i \in 1..Len(call.trace) : call.trace[i] = "run"})

\* The simulator hung: the run was submitted and was still not complete
\* when the wait ended.
SimulatorHung ==
    /\ Called
    /\ SPICELIB_AVAILABLE
    /\ Submitted
    /\ call.env.run = "ok"
    /\ call.env.wait = "timeout"

\* C16: every call ends with an outcome even when the simulator hangs: the
\* wait is bounded by 130 s, strictly more than the 120 s limit of a run,
\* simulations are submitted one at a time, and a run not completed when the
\* wait ends gives the failure outcome, neither blocking nor success.
C16_BoundedWait ==
    /\ WaitTimeout = 130
    /\ RunnerTimeout = 120
    /\ WaitTimeout > RunnerTimeout
    /\ parallel_sims = 1
    /\ Called =>
         /\ ~IsBlocked(call.ret)
         /\ Submissions <= parallel_sims
         /\ Submitted => ~Raised(call.ret)
         /\ SimulatorHung => IsFailureRecord(call.ret)

\* C16 witness: a submitted run was still incomplete when the wait ended,
\* no simulation being counted as failed, and the call returned failure.
C16_Witness ==
    /\ SimulatorHung
    /\ call.env.failSim = 0
    /\ call.env.completed = 0
    /\ call.ret = Failure
    /\ call.trace[Len(call.trace)] = "wait"

\* Without the toolchain nothing has been evaluated, copied or written, no
\* incumbent exists, and the function is at its start or has returned
\* after printing the guidance.
C17_NothingDone ==
    ~SPICELIB_AVAILABLE =>
      /\ pc \in {"start", "done"}
      /\ pc = "done" => report = "spicelib not installed"
      /\ call = NoCall
      /\ history = <<>>
      /\ copies = 0
      /\ writes = 0
      /\ fs.results = None
      /\ best_params = None
      /\ best_delay = None

\* Without the toolchain no step changes a file or directory.
C17_FilesUntouched == ~SPICELIB_AVAILABLE => fs' = fs

\* C17: when the toolchain is absent optimize_with_simulator exits before
\* doing anything else: it creates no working directory, copies no library,
\* evaluates no candidate, writes no results file and ends without an
\* optimization result.
C17_UnavailableExitsFirst == [](C17_NothingDone) /\ [][C17_FilesUntouched]_vars

\* C17 witness: the function returned without the toolchain, the working
\* directory still absent and the library still uncopied although a copy
\* was due.
C17_Witness ==
    /\ ~SPICELIB_AVAILABLE
    /\ pc = "done"
    /\ report = "spicelib not installed"
    /\ ~fs.sim_out
    /\ fs.lib_src # None
    /\ fs.lib_dst = None

\* ------------------------------------------------------------------------
\* Feasibility of degenerate points and the MIDACO problem (SpecPerf)
\* ------------------------------------------------------------------------

\* The callback was called on a point whose Wn is at or below the 0.01
\* threshold of line 122.
DegenerateCalled == OptimCalled /\ FLeq(x[1], F(1, -2))

\* C18: for a degenerate point, Wn at or near zero, the substituted ratio
\* makes the point look feasible: both residuals returned by
\* compute_performances_for_optim are >= 0.
C18_DegenerateLooksFeasible ==
    DegenerateCalled =>
      /\ ~Raised(fg)
      /\ FLeq(FZero, fg.g[1])
      /\ FLeq(FZero, fg.g[2])

\* C18 amended: for a degenerate point the substituted ratio 1.0 lies below
\* the window: the first residual is negative, so the point looks
\* infeasible, and only the second residual is >= 0.
C18_DegenerateLooksInfeasible ==
    DegenerateCalled =>
      /\ ~Raised(fg)
      /\ FLess(fg.g[1], FZero)
      /\ FLeq(FZero, fg.g[2])

\* C18 witness: the callback evaluated Wn = 0.005 with the largest Wp of
\* the bounds and returned a negative first residual.
C18_Witness ==
    /\ DegenerateCalled
    /\ x[1] = F(5, -3)
    /\ x[2] = problem_xu[2]
    /\ FLess(fg.g[1], FZero)

\* ------------------------------------------------------------------------
\* The initial incumbent of the grid search (Spec)
\* ------------------------------------------------------------------------

\* C19: if at least one evaluated candidate returns success True, the
\* search ends with a best result, whose delay is the minimum delay_ns over
\* the successful outcomes, for every value of delay_ns a successful outcome
\* can carry: the initial incumbent delay of 1e9 hides no successful
\* candidate.
C19_SuccessNeverHidden ==
    (pc = "done" /\ \E i \in 1..Len(history) : Succeeded(i)) =>
       /\ best_params # None
       /\ report = "best solution"
       /\ \E i \in 1..Len(history) : IsMinimumSuccess(i)

\* C20: the problem handed to the optimizer is consistent with the
\* callback: three variables, as many lower bounds, upper bounds and initial
\* components; one objective, as many as the callback returns; two
\* constraints, as many as the residuals it returns, none of them an
\* equality; each lower bound <= its upper bound; and the initial point
\* (2.0, 6.0, 0.35) lies within the bounds and satisfies both residuals.
C20_ProblemConsistent ==
    /\ problem_n = 3
    /\ Len(problem_xl) = problem_n
    /\ Len(problem_xu) = problem_n
    /\ Len(problem_x) = problem_n
    /\ problem_o = 1
    /\ problem_m = 2
    /\ problem_me = 0
    /\ problem_ni = 0
    /\ \A i \in 1..problem_n : FLeq(problem_xl[i], problem_xu[i])
    /\ problem_x = <<F(2, 0), F(6, 0), F(35, -2)>>
    /\ \A i \in 1..problem_n : InBounds(problem_x[i], i)
    /\ OptimCalled =>
         /\ ~Raised(fg)
         /\ Len(fg.f) = problem_o
         /\ Len(fg.g) = problem_m
    /\ (OptimCalled /\ x = problem_x) =>
         \A k \in 1..Len(fg.g) : FLeq(FZero, fg.g[k])

\* C20 witness: the callback evaluated the initial point and returned one
\* objective and the residuals 1.8 and 1.5 of the ratio 3.
C20_Witness ==
    /\ OptimCalled
    /\ x = problem_x
    /\ Len(fg.f) = 1
    /\ fg.g = <<F(18, -1), F(15, -1)>>

====
